---- MODULE Spec2Model ----
(***************************************************************************)
(* FlexiRoute dataset converters (scripts/convert_california.py and        *)
(* scripts/convert_london.py): graph canonicalization, the rush-hour time  *)
(* grid, and the synthesis of per-edge costs and widths.                   *)
(*                                                                         *)
(* The decimals read from the raw files and the options (distances,        *)
(* coordinates, widths, the base speed) are exact rationals [n, d] (d > 0, *)
(* lowest terms).  The floats write_edges computes with (speeds, costs,    *)
(* multipliers) are IEEE-754 doubles [s, m, e] of value                    *)
(*   (-1)^s * (m[1] + m[2]*2^14 + m[3]*2^28 + m[4]*2^42) * 2^e,            *)
(* and every float operation rounds as the hardware does.  Python's random *)
(* module is the Mersenne Twister: the words it yields after               *)
(* random.seed(42) and after random.seed(123) are tabulated, and           *)
(* getrandbits, _randbelow, shuffle, random and uniform are computed from  *)
(* them as CPython does.  A cost written with f"{c:.6f}" is held as a      *)
(* whole number of millionths.                                             *)
(***************************************************************************)
EXTENDS Integers, Sequences, FiniteSets, TLC

VARIABLES
    script,       \* which converter runs: "california" or "london"
    pc,           \* position of the interpreter in the script
    series,       \* ARRIVAL_SERIES (being built while pc = "import")
    gts,          \* generate_time_series locals: [w, time]
    cfg,          \* args of main (argparse namespace)
    present,      \* which raw files exist in the input directory
    raw,          \* contents of the raw files as read by the loaders
    nodes,        \* main's local `nodes`
    edges,        \* main's local `edges`
    vertex_count, \* main's local `vertex_count`
    nodes_file,   \* nodes_<N>.txt: [exists, lines]
    edges_file,   \* edges_<N>.txt: [exists, arrival, width, lines]
    rng,          \* the shared random stream: [seed, pos]
    scores,       \* write_edges local `scores`
    is_clearway,  \* write_edges local `is_clearway`
    loc,          \* write_edges per-edge locals
    arg_nodes,    \* function-level check: node argument
    arg_edges,    \* function-level check: edge argument
    ret,          \* function-level check: value returned
    fn_pc         \* function-level check: which call was made

pvars == <<script, pc, series, gts, cfg, present, raw, nodes, edges,
           vertex_count, nodes_file, edges_file, rng, scores, is_clearway, loc>>
fvars == <<arg_nodes, arg_edges, ret, fn_pc>>
vars == <<pvars, fvars>>

(***************************************************************************)
(* Bounds of the model                                                     *)
(***************************************************************************)
MaxNodeId == 2      \* node ids handed to the id policies range over 0..MaxNodeId
MaxDedupeId == 1    \* node ids handed to dedupe_edges alone range over 0..MaxDedupeId
MaxArgEdges == 3    \* longest edge list handed to dedupe_edges alone
MaxChkEdges == 1    \* longest edge list handed to the id policies alone
MaxArgNodes == 3    \* longest node list handed to ensure_ids_contiguous alone
MaxRawEdges == 2    \* most edge lines in a raw file read by main
MaxRawNodes == 2    \* most node lines in a raw file read by main

(***************************************************************************)
(* Rational arithmetic (decimals as they are written in the input)         *)
(***************************************************************************)
Abs(x) == IF x < 0 THEN -x ELSE x

RECURSIVE GCD(_, _)
GCD(a, b) == IF b = 0 THEN a ELSE GCD(b, a % b)

Rat(n, d) ==
    LET g == GCD(Abs(n), Abs(d))
        s == IF d < 0 THEN -1 ELSE 1
    IN [n |-> s * (n \div g), d |-> s * (d \div g)]

RatInt(i) == [n |-> i, d |-> 1]

RatLess(a, b) ==
    LET g == GCD(a.d, b.d)
    IN a.n * (b.d \div g) < b.n * (a.d \div g)

RatLeq(a, b) == a = b \/ RatLess(a, b)

(***************************************************************************)
(* Python floats: IEEE-754 doubles.  A double is [s, m, e]: its value is   *)
(*   (-1)^s * (m[1] + m[2]*2^14 + m[3]*2^28 + m[4]*2^42) * 2^e,            *)
(* the mantissa m being 0 (with e = 0) or in 2^52 .. 2^53 - 1.  Every      *)
(* operation computes the exact result on integers held as tuples of       *)
(* 14-bit limbs, lowest first (4 limbs for a mantissa, 8 for a sum or a    *)
(* product), and rounds it to 53 bits, ties to even.  Subnormal numbers,   *)
(* infinities and NaN do not occur in the model.                           *)
(***************************************************************************)
RECURSIVE Pow2(_)
Pow2(k) == IF k = 0 THEN 1 ELSE 2 * Pow2(k - 1)

\* 2^k for k in 0..30
POW2 == [k \in 0..30 |-> Pow2(k)]

LimbBase == POW2[14]

\* n.bit_length()
RECURSIVE BitLength(_)
BitLength(n) == IF n = 0 THEN 0 ELSE 1 + BitLength(n \div 2)

\* limb i of a number of n limbs, 0 outside 1..n
At(x, n, i) == IF 0 < i /\ i <= n THEN x[i] ELSE 0

\* a mantissa as a number of 8 limbs
Wide(x) == <<x[1], x[2], x[3], x[4], 0, 0, 0, 0>>

\* the product of two numbers of 4 limbs
M_mul(x, y) ==
    LET t1 == x[1] * y[1]
        t2 == x[1] * y[2] + x[2] * y[1] + t1 \div LimbBase
        t3 == x[1] * y[3] + x[2] * y[2] + x[3] * y[1] + t2 \div LimbBase
        t4 == x[1] * y[4] + x[2] * y[3] + x[3] * y[2] + x[4] * y[1] + t3 \div LimbBase
        t5 == x[2] * y[4] + x[3] * y[3] + x[4] * y[2] + t4 \div LimbBase
        t6 == x[3] * y[4] + x[4] * y[3] + t5 \div LimbBase
        t7 == x[4] * y[4] + t6 \div LimbBase
    IN <<t1 % LimbBase, t2 % LimbBase, t3 % LimbBase, t4 % LimbBase,
         t5 % LimbBase, t6 % LimbBase, t7 % LimbBase, t7 \div LimbBase>>

\* x << r for a mantissa x and r <= 55
M_shl(x, r) ==
    LET k == r \div 14
        lo == POW2[r % 14]
        hi == POW2[14 - (r % 14)]
        out(j) == (At(x, 4, j - k) % hi) * lo + At(x, 4, j - k - 1) \div hi
    IN <<out(1), out(2), out(3), out(4), out(5), out(6), out(7), out(8)>>

\* the lowest 4 limbs of P >> r
W_shr(P, r) ==
    LET k == r \div 14
        lo == POW2[r % 14]
        hi == POW2[14 - (r % 14)]
        out(j) == At(P, 8, j + k) \div lo + (At(P, 8, j + k + 1) % lo) * hi
    IN <<out(1), out(2), out(3), out(4)>>

W_add(P, Q) ==
    LET t1 == P[1] + Q[1]
        t2 == P[2] + Q[2] + t1 \div LimbBase
        t3 == P[3] + Q[3] + t2 \div LimbBase
        t4 == P[4] + Q[4] + t3 \div LimbBase
        t5 == P[5] + Q[5] + t4 \div LimbBase
        t6 == P[6] + Q[6] + t5 \div LimbBase
        t7 == P[7] + Q[7] + t6 \div LimbBase
        t8 == P[8] + Q[8] + t7 \div LimbBase
    IN <<t1 % LimbBase, t2 % LimbBase, t3 % LimbBase, t4 % LimbBase,
         t5 % LimbBase, t6 % LimbBase, t7 % LimbBase, t8>>

\* P - Q for P >= Q
W_sub(P, Q) ==
    LET t1 == P[1] - Q[1]
        t2 == P[2] - Q[2] - (IF t1 < 0 THEN 1 ELSE 0)
        t3 == P[3] - Q[3] - (IF t2 < 0 THEN 1 ELSE 0)
        t4 == P[4] - Q[4] - (IF t3 < 0 THEN 1 ELSE 0)
        t5 == P[5] - Q[5] - (IF t4 < 0 THEN 1 ELSE 0)
        t6 == P[6] - Q[6] - (IF t5 < 0 THEN 1 ELSE 0)
        t7 == P[7] - Q[7] - (IF t6 < 0 THEN 1 ELSE 0)
        t8 == P[8] - Q[8] - (IF t7 < 0 THEN 1 ELSE 0)
    IN <<t1 % LimbBase, t2 % LimbBase, t3 % LimbBase, t4 % LimbBase,
         t5 % LimbBase, t6 % LimbBase, t7 % LimbBase, t8>>

\* P < Q on the lowest j limbs
RECURSIVE W_less_below(_, _, _)
W_less_below(P, Q, j) ==
    IF j = 0 THEN FALSE
    ELSE IF P[j] # Q[j] THEN P[j] < Q[j]
    ELSE W_less_below(P, Q, j - 1)

M_less(a, b) == W_less_below(a, b, 4)

\* the bit length of the lowest j limbs of P
RECURSIVE W_bitlen_below(_, _)
W_bitlen_below(P, j) ==
    IF j = 0 THEN 0
    ELSE IF P[j] # 0 THEN 14 * (j - 1) + BitLength(P[j])
    ELSE W_bitlen_below(P, j - 1)

W_bitlen(P) == W_bitlen_below(P, 8)

\* bit i of P (bit 0 is the lowest), and whether every bit below bit i is 0
W_bit(P, i) == (P[i \div 14 + 1] \div POW2[i % 14]) % 2

W_lowzero(P, i) ==
    /\ \A j \in 1..(i \div 14) : P[j] = 0
    /\ P[i \div 14 + 1] % POW2[i % 14] = 0

\* q + 1 for a mantissa q; 2^53 is held with m[4] = 2^11
M_inc(q) ==
    LET t1 == q[1] + 1
        t2 == q[2] + t1 \div LimbBase
        t3 == q[3] + t2 \div LimbBase
    IN <<t1 % LimbBase, t2 % LimbBase, t3 % LimbBase, q[4] + t3 \div LimbBase>>

FZero == [s |-> 0, m |-> <<0, 0, 0, 0>>, e |-> 0]

FIsZero(x) == x.m = <<0, 0, 0, 0>>

\* (-1)^sgn * q * 2^e for a rounded q <= 2^53; 2^53 is 2^52 one exponent up
FRoundCarry(sgn, q, e) ==
    IF q[4] >= POW2[11]
    THEN [s |-> sgn, m |-> <<0, 0, 0, POW2[10]>>, e |-> e + 1]
    ELSE [s |-> sgn, m |-> q, e |-> e]

\* q, or q + 1 when the dropped bits round up
FRoundTo(sgn, q, up, e) == FRoundCarry(sgn, IF up THEN M_inc(q) ELSE q, e)

\* P of 53 + r bits: the r lowest bits are dropped, and the result goes up
\* when they are more than half of the last place kept, or exactly half of
\* it with the last bit kept odd
FRoundDrop(sgn, P, e, sticky, r) ==
    FRoundTo(sgn, W_shr(P, r),
             /\ W_bit(P, r - 1) = 1
             /\ (sticky \/ ~W_lowzero(P, r - 1) \/ W_bit(P, r) = 1),
             e + r)

\* P of L bits
FRoundLen(sgn, P, e, sticky, L) ==
    IF L = 0 THEN FZero
    ELSE IF L <= 53
    THEN [s |-> sgn, m |-> W_shr(M_shl(P, 53 - L), 0), e |-> e - (53 - L)]
    ELSE FRoundDrop(sgn, P, e, sticky, L - 53)

\* (-1)^sgn * (P + a fraction, when sticky) * 2^e rounded to a double
FRound(sgn, P, e, sticky) == FRoundLen(sgn, P, e, sticky, W_bitlen(P))

\* float(i) for an int i
FInt(i) ==
    LET a == IF i < 0 THEN -i ELSE i
    IN FRound(IF i < 0 THEN 1 ELSE 0,
              <<a % LimbBase, (a \div LimbBase) % LimbBase,
                a \div (LimbBase * LimbBase), 0, 0, 0, 0, 0>>,
              0, FALSE)

FNeg(x) == IF FIsZero(x) THEN x ELSE [x EXCEPT !.s = 1 - x.s]

FMul(x, y) ==
    IF FIsZero(x) \/ FIsZero(y) THEN FZero
    ELSE FRound((x.s + y.s) % 2, M_mul(x.m, y.m), x.e + y.e, FALSE)

\* q + 1 and r - d while r >= d, for r of 5 limbs and the mantissa d
RECURSIVE D_fix(_, _, _)
D_fix(q, r, d) ==
    IF r[5] = 0 /\ M_less(r, d) THEN [q |-> q, r |-> <<r[1], r[2], r[3], r[4]>>]
    ELSE LET t1 == r[1] - d[1]
             t2 == r[2] - d[2] - (IF t1 < 0 THEN 1 ELSE 0)
             t3 == r[3] - d[3] - (IF t2 < 0 THEN 1 ELSE 0)
             t4 == r[4] - d[4] - (IF t3 < 0 THEN 1 ELSE 0)
             t5 == r[5] - (IF t4 < 0 THEN 1 ELSE 0)
         IN D_fix(q + 1,
                  <<t1 % LimbBase, t2 % LimbBase, t3 % LimbBase, t4 % LimbBase, t5>>,
                  d)

\* r * 2^14 + low - q * d, in 5 limbs, for a digit q that is not too large
D_mulsub(r, low, d, q) ==
    LET p1 == q * d[1]
        p2 == q * d[2] + p1 \div LimbBase
        p3 == q * d[3] + p2 \div LimbBase
        p4 == q * d[4] + p3 \div LimbBase
        t1 == low - (p1 % LimbBase)
        t2 == r[1] - (p2 % LimbBase) - (IF t1 < 0 THEN 1 ELSE 0)
        t3 == r[2] - (p3 % LimbBase) - (IF t2 < 0 THEN 1 ELSE 0)
        t4 == r[3] - (p4 % LimbBase) - (IF t3 < 0 THEN 1 ELSE 0)
        t5 == r[4] - (p4 \div LimbBase) - (IF t4 < 0 THEN 1 ELSE 0)
    IN <<t1 % LimbBase, t2 % LimbBase, t3 % LimbBase, t4 % LimbBase, t5>>

\* one digit of a long division in base 2^14: for r < d, the quotient and the
\* remainder of r * 2^14 + low by the mantissa d.  The digit is first taken
\* from the leading 31 bits of the dividend and the leading 17 bits of d,
\* rounded so that it is never too large, and then stepped up.
D_estimate(r, d) ==
    (r[2] \div POW2[8] + r[3] * POW2[6] + r[4] * POW2[20])
        \div (d[3] \div POW2[8] + d[4] * POW2[6] + 1)

D_digit(r, low, d) ==
    D_fix(D_estimate(r, d), D_mulsub(r, low, d, D_estimate(r, d)), d)

\* k more digits of the division by d from the remainder r and the next 14
\* bits low of the dividend: the digits, highest first, and the last remainder
RECURSIVE D_digits(_, _, _, _)
D_prepend(q, rest) == [q |-> <<q>> \o rest.q, r |-> rest.r]

D_after(s, d, k) == D_prepend(s.q, D_digits(s.r, 0, d, k - 1))

D_digits(r, low, d, k) ==
    IF k = 0 THEN [q |-> <<>>, r |-> r]
    ELSE D_after(D_digit(r, low, d), d, k)

\* the four digits as a number of 8 limbs, lowest first
D_result(s) ==
    [q |-> <<s.q[4], s.q[3], s.q[2], s.q[1], 0, 0, 0, 0>>,
     sticky |-> s.r # <<0, 0, 0, 0>>]

\* floor(n * 2^55 / d) for mantissas n and d, and whether a remainder is left
M_div(n, d) ==
    D_result(D_digits(W_shr(Wide(n), 1), (n[1] % 2) * POW2[13], d, 4))

\* |x| / |y| with sign sgn, for x # 0 and y # 0
FDivMag(sgn, x, y) ==
    LET d == M_div(x.m, y.m)
    IN FRound(sgn, d.q, x.e - y.e - 55, d.sticky)

\* x / y for y # 0
FDiv(x, y) ==
    IF FIsZero(x) THEN FZero
    ELSE IF x.s = y.s THEN FDivMag(0, x, y)
    ELSE FDivMag(1, x, y)

\* |x| < |y|
FMagLess(x, y) ==
    IF FIsZero(y) THEN FALSE
    ELSE IF FIsZero(x) THEN TRUE
    ELSE x.e < y.e \/ (x.e = y.e /\ M_less(x.m, y.m))

\* P + Q, or P - Q for P >= Q
W_addsub(P, Q, add) == IF add THEN W_add(P, Q) ELSE W_sub(P, Q)

\* x + y for x.e >= y.e and, when the signs differ, |x| >= |y|: the sum has
\* the sign of x, and a y below 2^-2 units of the last place of x leaves x
FAddMag(x, y) ==
    IF x.e - y.e > 55 THEN x
    ELSE FRound(x.s, W_addsub(M_shl(x.m, x.e - y.e), Wide(y.m), x.s = y.s), y.e, FALSE)

FAdd(x, y) ==
    IF FIsZero(x) THEN y
    ELSE IF FIsZero(y) THEN x
    ELSE IF (IF x.s = y.s THEN x.e >= y.e ELSE ~FMagLess(x, y)) THEN FAddMag(x, y)
    ELSE FAddMag(y, x)

FSub(x, y) == FAdd(x, FNeg(y))

\* the double a decimal literal p / q of the source stands for
FLit(p, q) == FDiv(FInt(p), FInt(q))

\* float(text) for the decimal r; a whole number needs no division
float(r) == IF r.d = 1 THEN FInt(r.n) ELSE FLit(r.n, r.d)

(***************************************************************************)
(* Module constants                                                        *)
(***************************************************************************)
DEFAULT_BASE_WIDTH == Rat(35, 10)
DEFAULT_RUSH_WIDTH == Rat(25, 10)
CLEARWAY_RUSH_WIDTH == Rat(45, 10)
CLEARWAY_PERCENTAGE == 5
DEFAULT_SPEED == RatInt(100)
DENSITY == 20
RUSH_HOURS == << <<7 * 60 + 30, 9 * 60 + 30>>, <<16 * 60, 18 * 60 + 30>> >>
WIDTH_SERIES == <<0>>

(***************************************************************************)
(* Records                                                                 *)
(***************************************************************************)
EdgeRecord(s, t, dist) == [src |-> s, dst |-> t, distance |-> dist]

\* convert_california.NodeRecord
NodeRecord(id, la, lo) == [node_id |-> id, lat |-> la, lon |-> lo]

\* convert_london.NodeRecord; lat/lon are the projection of (x, y) and carry
\* no information of their own, so the model keeps (x, y)
LondonNodeRecord(id, px, py) == [node_id |-> id, x |-> px, y |-> py]

EmptyDict == [k \in {} |-> 0]

DictSet(d, key, val) == [k \in (DOMAIN d) \cup {key} |-> IF k = key THEN val ELSE d[k]]

Range(s) == {s[i] : i \in DOMAIN s}

(***************************************************************************)
(* sorted() on tuples (src, dst) and on integers                           *)
(***************************************************************************)
KeyLess(a, b) == a[1] < b[1] \/ (a[1] = b[1] /\ a[2] < b[2])

RECURSIVE sorted_keys(_)
sorted_keys(S) ==
    IF S = {} THEN <<>>
    ELSE LET m == CHOOSE k \in S : \A o \in S : o = k \/ KeyLess(k, o)
         IN <<m>> \o sorted_keys(S \ {m})

RECURSIVE sorted_ints(_)
sorted_ints(S) ==
    IF S = {} THEN <<>>
    ELSE LET m == CHOOSE k \in S : \A o \in S : k <= o
         IN <<m>> \o sorted_ints(S \ {m})

(***************************************************************************)
(* dedupe_edges                                                            *)
(***************************************************************************)
RECURSIVE dedupe_loop_keep_last(_, _, _)
dedupe_loop_keep_last(es, i, dedup) ==
    IF i > Len(es) THEN dedup
    ELSE LET e == es[i]
             key == <<e.src, e.dst>>
         IN dedupe_loop_keep_last(es, i + 1, DictSet(dedup, key, e))

RECURSIVE dedupe_loop(_, _, _)
dedupe_loop(es, i, dedup) ==
    IF i > Len(es) THEN dedup
    ELSE LET e == es[i]
             key == <<e.src, e.dst>>
         IN dedupe_loop(es, i + 1,
                IF key \notin DOMAIN dedup \/ RatLess(e.distance, dedup[key].distance)
                THEN DictSet(dedup, key, e)
                ELSE dedup)

dedupe_edges_skip_first(es) ==
    LET dedup == dedupe_loop(es, 2, EmptyDict)
        ks == sorted_keys(DOMAIN dedup)
    IN [i \in 1..Len(ks) |-> dedup[ks[i]]]

dedupe_edges(es) ==
    LET dedup == dedupe_loop(es, 1, EmptyDict)
        ks == sorted_keys(DOMAIN dedup)
    IN [i \in 1..Len(ks) |-> dedup[ks[i]]]

(***************************************************************************)
(* ensure_ids_contiguous: the value is "ok" when the function returns, or  *)
(* the exception raised                                                    *)
(***************************************************************************)
SetMax(S) == CHOOSE m \in S : \A o \in S : o <= m

EndpointIds(es) == {es[i].src : i \in DOMAIN es} \cup {es[i].dst : i \in DOMAIN es}

ensure_ids_contiguous_no_edge_check(ns, es) ==
    LET node_ids == {ns[i].node_id : i \in DOMAIN ns}
    IN IF node_ids = {} THEN "ValueError: max() arg is an empty sequence"
       ELSE LET missing == {i \in 0..SetMax(node_ids) : i \notin node_ids}
            IN IF missing # {} THEN "ValueError: Node ids are not contiguous"
               ELSE "ok"

ensure_ids_contiguous(ns, es) ==
    LET node_ids == {ns[i].node_id : i \in DOMAIN ns}
    IN IF node_ids = {} THEN "ValueError: max() arg is an empty sequence"
       ELSE LET missing == {i \in 0..SetMax(node_ids) : i \notin node_ids}
                edge_ids == EndpointIds(es)
                unknown == edge_ids \ node_ids
            IN IF missing # {} THEN "ValueError: Node ids are not contiguous"
               ELSE IF unknown # {} THEN "ValueError: Edges reference unknown nodes"
               ELSE "ok"

(***************************************************************************)
(* renumber_nodes_contiguous: returns [nodes, edges]                       *)
(***************************************************************************)
old_to_new_map_one_based(used_ids) ==
    LET s == sorted_ints(used_ids)
    IN [old_id \in used_ids |-> (CHOOSE i \in 1..Len(s) : s[i] = old_id)]

old_to_new_map_descending(used_ids) ==
    LET s == sorted_ints(used_ids)
    IN [old_id \in used_ids |-> Len(s) - (CHOOSE i \in 1..Len(s) : s[i] = old_id)]

\* {old_id: new_id for new_id, old_id in enumerate(sorted(used_ids))}
old_to_new_map(used_ids) ==
    LET s == sorted_ints(used_ids)
    IN [old_id \in used_ids |-> (CHOOSE i \in 1..Len(s) : s[i] = old_id) - 1]

renumber_nodes_contiguous(ns, es) ==
    LET used_ids == EndpointIds(es)
        old_to_new == old_to_new_map(used_ids)
        kept == (DOMAIN ns) \cap used_ids
        new_nodes == [new_id \in {old_to_new[o] : o \in kept} |->
                        LET o == CHOOSE o \in kept : old_to_new[o] = new_id
                        IN LondonNodeRecord(new_id, ns[o].x, ns[o].y)]
        new_edges == [i \in 1..Len(es) |->
                        EdgeRecord(old_to_new[es[i].src], old_to_new[es[i].dst],
                                   es[i].distance)]
    IN [nodes |-> new_nodes, edges |-> new_edges]

(***************************************************************************)
(* Function-level checks: each function is called on its own, on every     *)
(* argument within the bounds                                              *)
(***************************************************************************)
ArgDistances == {RatInt(5), Rat(32, 10)}

ArgEdgeUniverse ==
    {EdgeRecord(s, t, d) : s \in 0..MaxNodeId, t \in 0..MaxNodeId, d \in ArgDistances}

DedupeEdgeUniverse ==
    {EdgeRecord(s, t, d) : s \in 0..MaxDedupeId, t \in 0..MaxDedupeId, d \in ArgDistances}

SeqsUpTo(S, n) == UNION {[1..k -> S] : k \in 0..n}

\* the k-th line of a California node file: `id lon lat`
CaliforniaNode(id, k) == NodeRecord(id, Rat(370 + k, 10), Rat(-1220 - k, 10))

ArgNodeLists ==
    {[k \in 1..Len(ids) |-> CaliforniaNode(ids[k], k)] :
        ids \in SeqsUpTo(0..MaxNodeId, MaxArgNodes)}

\* a London node dict keyed by a set of raw ids
ArgNodeDicts ==
    {[id \in K |-> LondonNodeRecord(id, 500 + id, 200 + id)] : K \in SUBSET (0..MaxNodeId)}

FnInit ==
    /\ arg_nodes = <<>>
    /\ arg_edges = <<>>
    /\ ret = <<>>
    /\ fn_pc = "start"

CallDedupe ==
    /\ fn_pc = "start"
    /\ \E L \in SeqsUpTo(DedupeEdgeUniverse, MaxArgEdges) :
          /\ arg_edges' = L
          /\ ret' = dedupe_edges(L)
    /\ fn_pc' = "dedupe"
    /\ UNCHANGED <<arg_nodes, pvars>>

\* the result of one call is handed to a second call
CallDedupeAgain ==
    /\ fn_pc = "dedupe"
    /\ ret' = [once |-> ret, twice |-> dedupe_edges(ret)]
    /\ fn_pc' = "dedupe_again"
    /\ UNCHANGED <<arg_nodes, arg_edges, pvars>>

CallEnsure ==
    /\ fn_pc = "start"
    /\ \E N \in ArgNodeLists, L \in SeqsUpTo(ArgEdgeUniverse, MaxChkEdges) :
          /\ arg_nodes' = N
          /\ arg_edges' = L
          /\ ret' = ensure_ids_contiguous(N, L)
    /\ fn_pc' = "ensure"
    /\ UNCHANGED pvars

CallRenumber ==
    /\ fn_pc = "start"
    /\ \E N \in ArgNodeDicts, L \in SeqsUpTo(ArgEdgeUniverse, MaxChkEdges) :
          /\ arg_nodes' = N
          /\ arg_edges' = L
          /\ ret' = renumber_nodes_contiguous(N, L)
    /\ fn_pc' = "renumber"
    /\ UNCHANGED pvars

FnNext == CallDedupe \/ CallDedupeAgain \/ CallEnsure \/ CallRenumber

(***************************************************************************)
(* generate_time_series, run at import to set ARRIVAL_SERIES               *)
(***************************************************************************)
while_cond_strict(time, end) == time < end

\* `while time <= end`
while_cond(time, end) == time <= end

GtsAppend ==
    /\ pc = "import"
    /\ while_cond(gts.time, RUSH_HOURS[gts.w][2])
    /\ series' = Append(series, gts.time)
    /\ gts' = [gts EXCEPT !.time = gts.time + 30]
    /\ UNCHANGED <<script, pc, cfg, present, raw, nodes, edges, vertex_count,
                   nodes_file, edges_file, rng, scores, is_clearway, loc, fvars>>

GtsNextWindow ==
    /\ pc = "import"
    /\ ~while_cond(gts.time, RUSH_HOURS[gts.w][2])
    /\ gts.w < Len(RUSH_HOURS)
    /\ gts' = [w |-> gts.w + 1, time |-> RUSH_HOURS[gts.w + 1][1]]
    /\ UNCHANGED <<script, pc, series, cfg, present, raw, nodes, edges, vertex_count,
                   nodes_file, edges_file, rng, scores, is_clearway, loc, fvars>>

\* `return series`; the script then reaches `if __name__ == "__main__": main()`
GtsReturn ==
    /\ pc = "import"
    /\ ~while_cond(gts.time, RUSH_HOURS[gts.w][2])
    /\ gts.w = Len(RUSH_HOURS)
    /\ pc' = "main"
    /\ UNCHANGED <<script, series, gts, cfg, present, raw, nodes, edges, vertex_count,
                   nodes_file, edges_file, rng, scores, is_clearway, loc, fvars>>

(***************************************************************************)
(* Raw inputs of main                                                      *)
(***************************************************************************)
\* the node ids that occur in the raw files read by main
RawIds == {0, 1}

\* the exceptions a run of main can end with
Exceptions == {"FileNotFoundError", "ValueError", "TypeError", "ZeroDivisionError"}

Config(bw, rw, cw, den, pct, sp) ==
    [base_width |-> bw, rush_width |-> rw, clearway_width |-> cw,
     density |-> den, clearway_pct |-> pct, speed |-> sp]

\* command lines given to main: the defaults, and options changed
Configs ==
    { Config(DEFAULT_BASE_WIDTH, DEFAULT_RUSH_WIDTH, CLEARWAY_RUSH_WIDTH,
             DENSITY, CLEARWAY_PERCENTAGE, DEFAULT_SPEED),
      Config(DEFAULT_BASE_WIDTH, DEFAULT_RUSH_WIDTH, CLEARWAY_RUSH_WIDTH,
             50, 50, DEFAULT_SPEED),
      Config(DEFAULT_BASE_WIDTH, DEFAULT_RUSH_WIDTH, CLEARWAY_RUSH_WIDTH,
             DENSITY, 150, RatInt(-100)),
      Config(DEFAULT_BASE_WIDTH, DEFAULT_RUSH_WIDTH, CLEARWAY_RUSH_WIDTH,
             DENSITY, -5, RatInt(0)),
      Config(CLEARWAY_RUSH_WIDTH, DEFAULT_RUSH_WIDTH, DEFAULT_BASE_WIDTH,
             100, 50, RatInt(60)) }

\* the distance column of the k-th edge line: a file of lengths 5.0, 3.2,
\* 5.0, ... or a file that also holds negative numbers, -2.0, 5.0, -2.0, ...
RawDistancePatterns == {"positive", "signed"}

RawDistanceAt(pattern, k) ==
    IF pattern = "positive"
    THEN (IF k % 2 = 1 THEN RatInt(5) ELSE Rat(32, 10))
    ELSE (IF k % 2 = 1 THEN RatInt(-2) ELSE RatInt(5))

\* a line of "node coordinates.txt": `id lon lat`, or a line with too few columns
RawNodeLines ==
    {[bad |-> FALSE, node_id |-> i] : i \in RawIds} \cup {[bad |-> TRUE, node_id |-> 0]}

\* a line of "edge distance.txt" (`edge_id src dst distance`) or a row of
\* London_Edgelist.csv (XCoord, YCoord, START_NODE, END_NODE, EDGE, LENGTH),
\* or a line with too few columns (the csv reader then gives None for the
\* columns that are missing)
RawEdgeKeys ==
    {[bad |-> FALSE, src |-> s, dst |-> t] : s \in RawIds, t \in RawIds}
    \cup {[bad |-> TRUE, src |-> 0, dst |-> 0]}

RawEdgeFiles ==
    {[k \in 1..Len(ks) |->
        [bad |-> ks[k].bad, src |-> ks[k].src, dst |-> ks[k].dst,
         distance |-> RawDistanceAt(p, k)]] :
        ks \in SeqsUpTo(RawEdgeKeys, MaxRawEdges), p \in RawDistancePatterns}

(***************************************************************************)
(* Loaders: [status, value]                                                *)
(***************************************************************************)
load_nodes(lines) ==
    IF \E k \in DOMAIN lines : lines[k].bad
    THEN [status |-> "ValueError", value |-> <<>>]
    ELSE [status |-> "ok",
          value |-> [k \in 1..Len(lines) |-> CaliforniaNode(lines[k].node_id, k)]]

load_edges(lines) ==
    IF \E k \in DOMAIN lines : lines[k].bad
    THEN [status |-> "ValueError", value |-> <<>>]
    ELSE [status |-> "ok",
          value |-> [k \in 1..Len(lines) |->
                        EdgeRecord(lines[k].src, lines[k].dst, lines[k].distance)]]

\* row k of the csv has XCoord 500 + k and YCoord 200 + k
RowX(k) == 500 + k
RowY(k) == 200 + k

RECURSIVE london_first_pass(_, _, _)
london_first_pass(rows, k, d) ==
    IF k > Len(rows) THEN d
    ELSE LET src == rows[k].src
             dst == rows[k].dst
             d1 == IF src \notin DOMAIN d
                   THEN DictSet(d, src, LondonNodeRecord(src, RowX(k), RowY(k)))
                   ELSE d
             d2 == IF dst \notin DOMAIN d1
                   THEN DictSet(d1, dst, LondonNodeRecord(dst, RowX(k), RowY(k)))
                   ELSE d1
         IN london_first_pass(rows, k + 1, d2)

RECURSIVE london_second_pass(_, _, _)
london_second_pass(rows, k, d) ==
    IF k > Len(rows) THEN d
    ELSE LET src == rows[k].src
         IN london_second_pass(rows, k + 1,
                IF src \in DOMAIN d
                THEN DictSet(d, src, LondonNodeRecord(src, RowX(k), RowY(k)))
                ELSE d)

load_london_edges(rows) ==
    IF \E k \in DOMAIN rows : rows[k].bad
    THEN [status |-> "TypeError", nodes |-> EmptyDict, edges |-> <<>>]
    ELSE [status |-> "ok",
          nodes |-> london_second_pass(rows, 1, london_first_pass(rows, 1, EmptyDict)),
          edges |-> [k \in 1..Len(rows) |->
                        EdgeRecord(rows[k].src, rows[k].dst, rows[k].distance)]]

(***************************************************************************)
(* write_nodes: the lines of nodes_<N>.txt                                 *)
(***************************************************************************)
\* stable sort of a list of records by node_id
RECURSIVE sorted_by_node_id(_)
sorted_by_node_id(ns) ==
    IF ns = <<>> THEN <<>>
    ELSE LET m == CHOOSE k \in DOMAIN ns :
                     /\ \A o \in DOMAIN ns : ns[k].node_id <= ns[o].node_id
                     /\ \A o \in 1..(k - 1) : ns[o].node_id # ns[k].node_id
             rest == [i \in 1..(Len(ns) - 1) |-> IF i < m THEN ns[i] ELSE ns[i + 1]]
         IN <<ns[m]>> \o sorted_by_node_id(rest)

write_nodes_california(ns) ==
    LET s == sorted_by_node_id(ns)
    IN [k \in 1..Len(s) |->
          [id |-> s[k].node_id, lat |-> s[k].lat, lon |-> s[k].lon, clusterId |-> 1]]

write_nodes_london(nd) ==
    LET ks == sorted_ints(DOMAIN nd)
    IN [k \in 1..Len(ks) |->
          [id |-> nd[ks[k]].node_id, x |-> nd[ks[k]].x, y |-> nd[ks[k]].y, clusterId |-> 1]]

(***************************************************************************)
(* The random module: seed, getrandbits, random, uniform, _randbelow,      *)
(* shuffle.  The stream state is [seed, pos]: the seed it was started      *)
(* from and the number of 32-bit words taken since.  Every draw returns    *)
(* [value, state].                                                         *)
(***************************************************************************)
\* the first words the generator yields after random.seed(42), each without
\* its 5 low bits (no draw of the scripts reads them)
MT_WORDS_42 ==
    << 85822412, 14942603, 3356886, 99529223, 36913810, 32868828,
       29958838, 18728463, 98847493, 13756669, 90825067, 99410741,
       119746314, 73197857, 11668732, 79254563, 56629388, 4265799,
       3999315, 12575562, 29345092, 31227216, 67827638, 80801586,
       3561597, 75329037, 26687537, 96102525, 87226012, 94130244,
       73140807, 56306997, 29587039, 60291817, 79089901, 37338124,
       108639916, 116675514, 872248, 101845400, 108155229, 21429110,
       93702683, 56722344, 45667651, 37295260, 20868105, 28898923,
       128474963, 102474447, 45176955, 13718431, 12448136, 50992979,
       12981052, 48181396, 113748768, 46164955, 81030736, 35503389,
       108330923, 5831819, 97942942, 61662963, 71971316, 16753883,
       130609386, 123788389, 50806024, 10576383, 74093639, 39349722,
       111320809, 84374605, 83016315, 118843321, 115656342, 48537831,
       77490893, 25808537, 94566031, 9335534, 6150444, 88753260,
       30587988, 103759476, 38840994, 132234194, 10709497, 114798801,
       31244663, 116297469, 13556182, 51019678, 37308985, 60855700,
       85320121, 111952406, 48966946, 21831063, 49684848, 47683626,
       28119557, 89949389, 35833156, 94196727, 125715650, 91744214,
       86977837, 9583482, 81756179, 85225343, 22969840, 71691040,
       97861742, 32857966, 21931511, 62043515, 50929647, 36231783,
       132811575, 124203901, 85899313, 92363534, 74752529, 29476249,
       91887369, 43524491, 113125669, 103121302, 104152945, 7507864 >>

\* the same after random.seed(123)
MT_WORDS_123 ==
    << 7028123, 35927021, 11701997, 103207579, 54659064, 35776247,
       14455280, 112542036, 120956865, 117417124, 5120898, 50885206,
       71967819, 75473140, 44586820, 45741163, 114365130, 6966122,
       21429524, 18127105, 45260453, 75291046, 44801393, 94179209,
       32905268, 21981756, 224217, 121588586, 58555945, 103829221,
       11759284, 117927767, 80208442, 50679913, 9378727, 885171,
       42340186, 98252645, 60172721, 13695136, 121520550, 5890474,
       12450648, 89541769, 19082414, 16944947, 106041647, 121682863,
       2850244, 39164936, 122292556, 57799198, 76961530, 64011573,
       35610876, 62987396, 112452665, 4931607, 103185884, 40949443,
       46098710, 70017395, 107575051, 64821963, 27764610, 110229278,
       81725513, 85732454, 70742802, 75808056, 108627577, 128924650,
       42313904, 1684176, 53450619, 119848553, 103250891, 86725398,
       68820426, 58302392, 91917295, 72278854, 85678324, 106900065,
       89477272, 80061486, 119467007, 111871922, 65248132, 69874957,
       89720554, 56303833, 50267442, 68459929, 4273667, 113728288,
       101223409, 86631014, 24355808, 97418963, 110084063, 11087694,
       122627478, 65351303, 88325218, 35149912, 22834044, 44949587,
       45220120, 74383956, 52505076, 118637277, 9836921, 97054627,
       61306238, 52030257, 76929375, 104520521, 45111397, 2188862,
       25375454, 78678667, 11832271, 111615981, 84331350, 48790204,
       1721893, 120279157, 47233054, 133889239, 30753276, 54454662 >>

\* random.seed(a)
rng_seed(a) == [seed |-> a, pos |-> 0]

\* the next word of the stream, shifted right by 5
rng_word(s) ==
    [value |-> (IF s.seed = 42 THEN MT_WORDS_42 ELSE MT_WORDS_123)[s.pos + 1],
     state |-> [s EXCEPT !.pos = s.pos + 1]]

\* getrandbits(k), k <= 27: the top k bits of one word
rng_getrandbits(s, k) ==
    LET w == rng_word(s)
    IN [value |-> w.value \div POW2[27 - k], state |-> w.state]

\* random(): (a * 2^26 + b) / 2^53 with a = word >> 5, b = word >> 6 of two
\* successive words
rng_random(s) ==
    LET w1 == rng_word(s)
        w2 == rng_word(w1.state)
        a == w1.value
        b == w2.value \div 2
        N == <<b % LimbBase, b \div LimbBase + (a % 4) * POW2[12],
               (a \div 4) % LimbBase, a \div (4 * LimbBase), 0, 0, 0, 0>>
    IN [value |-> FRound(0, N, -53, FALSE), state |-> w2.state]

\* a + (b - a) * random()
rng_uniform(s, a, b) ==
    LET r == rng_random(s)
    IN [value |-> FAdd(a, FMul(FSub(b, a), r.value)), state |-> r.state]

\* _randbelow_with_getrandbits: k = n.bit_length(); draw k bits until < n
RECURSIVE rng_randbelow(_, _)
rng_randbelow(s, n) ==
    LET r == rng_getrandbits(s, BitLength(n))
    IN IF r.value >= n THEN rng_randbelow(r.state, n) ELSE r

Swap(x, i, j) == [x EXCEPT ![i] = x[j], ![j] = x[i]]

\* for i in reversed(range(1, len(x))): j = randbelow(i + 1); swap x[i], x[j]
RECURSIVE shuffle_loop(_, _, _)
shuffle_loop(s, x, i) ==
    IF i < 1 THEN [list |-> x, state |-> s]
    ELSE LET r == rng_randbelow(s, i + 1)
         IN shuffle_loop(r.state, Swap(x, i + 1, r.value + 1), i - 1)

rng_shuffle(s, x) == shuffle_loop(s, x, Len(x) - 1)

(***************************************************************************)
(* write_edges: score and clearway assignment                              *)
(***************************************************************************)
indicator_vector_inclusive(n, pct) ==
    [i \in 1..n |-> IF (i - 1) <= (n * pct) \div 100 THEN 1 ELSE 0]

\* [1 if i < len(edges) * pct // 100 else 0 for i in range(len(edges))]
indicator_vector(n, pct) ==
    [i \in 1..n |-> IF (i - 1) < (n * pct) \div 100 THEN 1 ELSE 0]

clearway_stream_continued(s) == s

\* random.seed(123), called with the stream in state s
clearway_stream(s) == rng_seed(123)

assign_scores_and_clearway_seeds_swapped(n, density, pct) ==
    LET cw == rng_shuffle(rng_seed(123), indicator_vector(n, pct))
        sc == rng_shuffle(rng_seed(42), indicator_vector(n, density))
    IN [scores |-> sc.list, is_clearway |-> cw.list, state |-> sc.state]

\* [scores, is_clearway, state] after both assignments
assign_scores_and_clearway(n, density, pct) ==
    LET sc == rng_shuffle(rng_seed(42), indicator_vector(n, density))
        cw == rng_shuffle(clearway_stream(sc.state), indicator_vector(n, pct))
    IN [scores |-> sc.list, is_clearway |-> cw.list, state |-> cw.state]

(***************************************************************************)
(* write_edges: per-edge cost synthesis                                    *)
(***************************************************************************)
\* the float literals of write_edges and the bounds of its uniform draws
KM_PER_MILE == FLit(160934, 100000)
MIN_PER_HOUR == FLit(600, 10)
SPEED_MPH_BOUNDS == <<FInt(20), FInt(25)>>
SPEED_MULTIPLIER_BOUNDS == <<FLit(8, 10), FLit(12, 10)>>
BAND_EDGE == <<FLit(10, 100), FLit(15, 100)>>
BAND_SHOULDER == <<FLit(20, 100), FLit(25, 100)>>
BAND_PEAK == <<FLit(30, 100), FLit(40, 100)>>

\* speed_mph * 1.60934 / 60.0
speed_km_per_min(speed_mph) ==
    FDiv(FMul(speed_mph, KM_PER_MILE), MIN_PER_HOUR)

\* the rush transition at one grid point; st = [inside_rush, rush_idx]
rush_step_california(st, time) ==
    IF st.rush_idx < Len(RUSH_HOURS)
    THEN LET start == RUSH_HOURS[st.rush_idx + 1][1]
             end == RUSH_HOURS[st.rush_idx + 1][2]
         IN IF time = start THEN [st EXCEPT !.inside_rush = TRUE]
            ELSE IF time = end
                 THEN [inside_rush |-> FALSE, rush_idx |-> st.rush_idx + 1]
                 ELSE st
    ELSE st

rush_step_london_strict(st, time) ==
    IF st.rush_idx < Len(RUSH_HOURS)
    THEN LET start == RUSH_HOURS[st.rush_idx + 1][1]
             end == RUSH_HOURS[st.rush_idx + 1][2]
         IN IF time = start THEN [st EXCEPT !.inside_rush = TRUE]
            ELSE IF time > end /\ st.inside_rush
                 THEN [inside_rush |-> FALSE, rush_idx |-> st.rush_idx + 1]
                 ELSE st
    ELSE st

rush_step_london(st, time) ==
    IF st.rush_idx < Len(RUSH_HOURS)
    THEN LET start == RUSH_HOURS[st.rush_idx + 1][1]
             end == RUSH_HOURS[st.rush_idx + 1][2]
         IN IF time = start THEN [st EXCEPT !.inside_rush = TRUE]
            ELSE IF time >= end /\ st.inside_rush
                 THEN [inside_rush |-> FALSE, rush_idx |-> st.rush_idx + 1]
                 ELSE st
    ELSE st

rush_step_late_exit(sc, st, time) ==
    IF st.rush_idx < Len(RUSH_HOURS)
    THEN LET start == RUSH_HOURS[st.rush_idx + 1][1]
             end == RUSH_HOURS[st.rush_idx + 1][2]
         IN IF time = start THEN [st EXCEPT !.inside_rush = TRUE]
            ELSE IF time > end
                 THEN [inside_rush |-> FALSE, rush_idx |-> st.rush_idx + 1]
                 ELSE st
    ELSE st

\* the transition of the script that runs
rush_step(sc, st, time) ==
    IF sc = "california" THEN rush_step_california(st, time)
    ELSE rush_step_london(st, time)

multiplier_range_no_four(position) ==
    IF position = 0 THEN BAND_EDGE
    ELSE IF position = 1 \/ position = 3 THEN BAND_SHOULDER
    ELSE IF position = 2 THEN BAND_PEAK
    ELSE <<>>

\* the bounds of random.uniform for a position, <<>> for `multiplier = 0`
multiplier_range(position) ==
    IF position = 0 \/ position = 4 THEN BAND_EDGE
    ELSE IF position = 1 \/ position = 3 THEN BAND_SHOULDER
    ELSE IF position = 2 THEN BAND_PEAK
    ELSE <<>>

surcharged_cost_discount(base_cost, multiplier) ==
    FSub(base_cost, FMul(base_cost, multiplier))

\* temp_cost += base_cost * multiplier
surcharged_cost(base_cost, multiplier) ==
    FAdd(base_cost, FMul(base_cost, multiplier))

\* f"{x:.6f}" as a whole number of millionths, for |x| < 2^31 / 10^6: the
\* exact value of the double rounded to 6 decimals, ties to even
format6(x) ==
    LET P == M_mul(x.m, <<576, 61, 0, 0>>)
        r == -x.e
        q == W_shr(P, r)
        guard == W_bit(P, r - 1) = 1
        rest == ~W_lowzero(P, r - 1)
        up == guard /\ (rest \/ q[1] % 2 = 1)
        whole == q[1] + q[2] * LimbBase + q[3] * LimbBase * LimbBase + (IF up THEN 1 ELSE 0)
    IN IF FIsZero(x) THEN 0
       ELSE IF x.s = 1 THEN -whole ELSE whole

edge_widths_rush_option(flag, c) ==
    IF flag # 0
    THEN [base |-> c.base_width, rush |-> c.clearway_width]
    ELSE [base |-> c.base_width, rush |-> c.rush_width]

\* edge_base_width, edge_rush_width
edge_widths(flag, c) ==
    IF flag # 0
    THEN [base |-> c.base_width, rush |-> c.clearway_width]
    ELSE [base |-> c.base_width, rush |-> c.base_width]

(***************************************************************************)
(* main                                                                    *)
(***************************************************************************)
\* the locals of write_edges; position and multiplier are unbound until the
\* first rush point is met, shown here as -1 and 0
NoLoc == [idx |-> 0, base_cost |-> FZero, travel_costs |-> <<>>,
          rush_idx |-> 0, inside_rush |-> FALSE, t |-> 0,
          position |-> -1, multiplier |-> FZero]

PInit ==
    /\ script \in {"california", "london"}
    /\ pc = "import"
    /\ series = <<0>>
    /\ gts = [w |-> 1, time |-> RUSH_HOURS[1][1]]
    /\ cfg = Config(DEFAULT_BASE_WIDTH, DEFAULT_RUSH_WIDTH, CLEARWAY_RUSH_WIDTH,
                    DENSITY, CLEARWAY_PERCENTAGE, DEFAULT_SPEED)
    /\ present = {}
    /\ raw = [nodes |-> <<>>, edges |-> <<>>]
    /\ nodes = <<>>
    /\ edges = <<>>
    /\ vertex_count = 0
    /\ nodes_file = [exists |-> FALSE, lines |-> <<>>]
    /\ edges_file = [exists |-> FALSE, arrival |-> <<>>, width |-> <<>>, lines |-> <<>>]
    /\ rng = [seed |-> 0, pos |-> 0]
    /\ scores = <<>>
    /\ is_clearway = <<>>
    /\ loc = NoLoc

RequiredFiles(sc) == IF sc = "california" THEN {"nodes", "edges"} ELSE {"edges"}

\* parser.parse_args()
ParseArgs ==
    /\ pc = "main"
    /\ cfg' \in Configs
    /\ pc' = "check_files"
    /\ UNCHANGED <<script, series, gts, present, raw, nodes, edges, vertex_count,
                   nodes_file, edges_file, rng, scores, is_clearway, loc, fvars>>

\* the `if not ...exists(): raise FileNotFoundError` tests
CheckFiles ==
    /\ pc = "check_files"
    /\ present' \in SUBSET RequiredFiles(script)
    /\ pc' = IF RequiredFiles(script) \subseteq present' THEN "load" ELSE "FileNotFoundError"
    /\ UNCHANGED <<script, series, gts, cfg, raw, nodes, edges, vertex_count,
                   nodes_file, edges_file, rng, scores, is_clearway, loc, fvars>>

\* load_nodes and load_edges (california), load_london_edges (london)
Load ==
    /\ pc = "load"
    /\ \E nl \in (IF script = "california" THEN SeqsUpTo(RawNodeLines, MaxRawNodes) ELSE {<<>>}),
          el \in RawEdgeFiles :
          /\ raw' = [nodes |-> nl, edges |-> el]
          /\ IF script = "california"
             THEN LET n == load_nodes(nl)
                      e == load_edges(el)
                  IN IF n.status # "ok"
                     THEN /\ pc' = n.status
                          /\ UNCHANGED <<nodes, edges>>
                     ELSE IF e.status # "ok"
                          THEN /\ pc' = e.status
                               /\ nodes' = n.value
                               /\ UNCHANGED edges
                          ELSE /\ pc' = "validate"
                               /\ nodes' = n.value
                               /\ edges' = e.value
             ELSE LET r == load_london_edges(el)
                  IN IF r.status # "ok"
                     THEN /\ pc' = r.status
                          /\ UNCHANGED <<nodes, edges>>
                     ELSE /\ pc' = "dedupe"
                          /\ nodes' = r.nodes
                          /\ edges' = r.edges
    /\ UNCHANGED <<script, series, gts, cfg, present, vertex_count,
                   nodes_file, edges_file, rng, scores, is_clearway, loc, fvars>>

\* ensure_ids_contiguous(nodes, edges)
Validate ==
    /\ pc = "validate"
    /\ pc' = IF ensure_ids_contiguous(nodes, edges) = "ok" THEN "dedupe" ELSE "ValueError"
    /\ UNCHANGED <<script, series, gts, cfg, present, raw, nodes, edges, vertex_count,
                   nodes_file, edges_file, rng, scores, is_clearway, loc, fvars>>

\* edges = dedupe_edges(edges)
Dedupe ==
    /\ pc = "dedupe"
    /\ edges' = dedupe_edges(edges)
    /\ pc' = IF script = "california" THEN "write_nodes" ELSE "renumber"
    /\ UNCHANGED <<script, series, gts, cfg, present, raw, nodes, vertex_count,
                   nodes_file, edges_file, rng, scores, is_clearway, loc, fvars>>

\* nodes, edges = renumber_nodes_contiguous(nodes, edges)
Renumber ==
    /\ pc = "renumber"
    /\ LET r == renumber_nodes_contiguous(nodes, edges)
       IN /\ nodes' = r.nodes
          /\ edges' = r.edges
    /\ pc' = "write_nodes"
    /\ UNCHANGED <<script, series, gts, cfg, present, raw, vertex_count,
                   nodes_file, edges_file, rng, scores, is_clearway, loc, fvars>>

\* vertex_count = len(nodes); write_nodes(nodes_out, nodes)
WriteNodes ==
    /\ pc = "write_nodes"
    /\ vertex_count' = IF script = "california" THEN Len(nodes) ELSE Cardinality(DOMAIN nodes)
    /\ nodes_file' = [exists |-> TRUE,
                      lines |-> IF script = "california" THEN write_nodes_california(nodes)
                                ELSE write_nodes_london(nodes)]
    /\ pc' = "write_edges"
    /\ UNCHANGED <<script, series, gts, cfg, present, raw, nodes, edges,
                   edges_file, rng, scores, is_clearway, loc, fvars>>

\* write_edges up to the edge loop: the two header lines and both assignments
WriteEdgesOpen ==
    /\ pc = "write_edges"
    /\ edges_file' = [exists |-> TRUE, arrival |-> series, width |-> WIDTH_SERIES,
                      lines |-> <<>>]
    /\ LET a == assign_scores_and_clearway(Len(edges), cfg.density, cfg.clearway_pct)
       IN /\ scores' = a.scores
          /\ is_clearway' = a.is_clearway
          /\ rng' = a.state
    /\ loc' = [NoLoc EXCEPT !.idx = 1]
    /\ pc' = IF edges = <<>> THEN "done" ELSE "edge_begin"
    /\ UNCHANGED <<script, series, gts, cfg, present, raw, nodes, edges, vertex_count,
                   nodes_file, fvars>>

\* top of the loop body: the speed draw and base_cost
EdgeBegin ==
    /\ pc = "edge_begin"
    /\ LET e == edges[loc.idx]
           BaseCost(state, edge_speed) ==
               /\ rng' = state
               /\ IF FIsZero(edge_speed)
                  THEN /\ pc' = "ZeroDivisionError"
                       /\ UNCHANGED loc
                  ELSE /\ pc' = "grid"
                       /\ loc' = [loc EXCEPT
                                      !.base_cost = FDiv(float(e.distance), edge_speed),
                                      !.travel_costs = <<>>, !.rush_idx = 0,
                                      !.inside_rush = FALSE, !.t = 1]
           Speed(u) ==
               BaseCost(u.state,
                        IF script = "california" THEN speed_km_per_min(u.value)
                        ELSE FMul(float(cfg.speed), u.value))
       IN Speed(IF script = "california"
                THEN rng_uniform(rng, SPEED_MPH_BOUNDS[1], SPEED_MPH_BOUNDS[2])
                ELSE rng_uniform(rng, SPEED_MULTIPLIER_BOUNDS[1],
                                 SPEED_MULTIPLIER_BOUNDS[2]))
    /\ UNCHANGED <<script, series, gts, cfg, present, raw, nodes, edges, vertex_count,
                   nodes_file, edges_file, scores, is_clearway, fvars>>

\* one iteration of `for time in ARRIVAL_SERIES`
GridStep ==
    /\ pc = "grid"
    /\ loc.t <= Len(series)
    /\ LET time == series[loc.t]
           st == rush_step(script, [inside_rush |-> loc.inside_rush,
                                    rush_idx |-> loc.rush_idx], time)
       IN IF st.inside_rush /\ st.rush_idx >= Len(RUSH_HOURS)
          THEN /\ pc' = "IndexError"
               /\ UNCHANGED <<rng, loc>>
          ELSE LET start == RUSH_HOURS[st.rush_idx + 1][1]
                   position == (time - start) \div 30
                   Draw(range) ==
                       IF st.inside_rush /\ range # <<>>
                       THEN rng_uniform(rng, range[1], range[2])
                       ELSE [value |-> FZero, state |-> rng]
                   TempCost(u) ==
                       /\ rng' = u.state
                       /\ loc' = [loc EXCEPT
                                      !.inside_rush = st.inside_rush,
                                      !.rush_idx = st.rush_idx,
                                      !.travel_costs =
                                          Append(loc.travel_costs,
                                                 IF st.inside_rush
                                                 THEN surcharged_cost(loc.base_cost, u.value)
                                                 ELSE loc.base_cost),
                                      !.t = loc.t + 1,
                                      !.position = IF st.inside_rush THEN position
                                                   ELSE loc.position,
                                      !.multiplier = IF st.inside_rush THEN u.value
                                                     ELSE loc.multiplier]
                       /\ pc' = pc
               IN TempCost(Draw(multiplier_range(position)))
    /\ UNCHANGED <<script, series, gts, cfg, present, raw, nodes, edges, vertex_count,
                   nodes_file, edges_file, scores, is_clearway, fvars>>

\* bottom of the loop body: the widths and the edge line
EdgeEnd ==
    /\ pc = "grid"
    /\ loc.t > Len(series)
    /\ LET e == edges[loc.idx]
           w == edge_widths(is_clearway[loc.idx], cfg)
           line == [src |-> e.src, dst |-> e.dst,
                    costs |-> [i \in 1..Len(loc.travel_costs) |-> format6(loc.travel_costs[i])],
                    baseWidth |-> w.base, rushWidth |-> w.rush, distance |-> e.distance]
       IN edges_file' = [edges_file EXCEPT !.lines = Append(edges_file.lines, line)]
    /\ loc' = [loc EXCEPT !.idx = loc.idx + 1]
    /\ pc' = IF loc.idx = Len(edges) THEN "done" ELSE "edge_begin"
    /\ UNCHANGED <<script, series, gts, cfg, present, raw, nodes, edges, vertex_count,
                   nodes_file, rng, scores, is_clearway, fvars>>

Init == PInit /\ FnInit

Next ==
    \/ GtsAppend \/ GtsNextWindow \/ GtsReturn
    \/ ParseArgs \/ CheckFiles \/ Load
    \/ Validate \/ Dedupe \/ Renumber
    \/ WriteNodes \/ WriteEdgesOpen
    \/ EdgeBegin \/ GridStep \/ EdgeEnd

Spec == Init /\ [][Next]_vars

\* the functions called on their own, outside a run of main
InitFn ==
    /\ PInit
    /\ script = "california"
    /\ FnInit

SpecFn == InitFn /\ [][FnNext]_vars

(***************************************************************************)
(* Properties of the functions called on their own (SpecFn)                *)
(***************************************************************************)
EdgeKey(e) == <<e.src, e.dst>>

KeysOf(es) == {EdgeKey(es[i]) : i \in DOMAIN es}

StrictlyAscendingByKey(es) ==
    \A i \in 1..(Len(es) - 1) : KeyLess(EdgeKey(es[i]), EdgeKey(es[i + 1]))

\* C1: dedupe_edges returns exactly one edge per distinct (src,dst) pair of
\* the input, carrying the minimum distance of the input edges with that
\* pair, in strictly ascending (src,dst) order.
C1_DedupeCanonical ==
    fn_pc = "dedupe" =>
        /\ KeysOf(ret) = KeysOf(arg_edges)
        /\ Len(ret) = Cardinality(KeysOf(arg_edges))
        /\ \A i \in DOMAIN ret :
              /\ ret[i] \in Range(arg_edges)
              /\ \A j \in DOMAIN arg_edges :
                    EdgeKey(arg_edges[j]) = EdgeKey(ret[i])
                        => RatLeq(ret[i].distance, arg_edges[j].distance)
        /\ StrictlyAscendingByKey(ret)

\* a duplicated pair whose shorter edge comes later, next to another pair
\* that sorts before it although it was read after it
C1_Witness ==
    /\ fn_pc = "dedupe"
    /\ Len(arg_edges) = 3
    /\ Len(ret) = 2
    /\ EdgeKey(arg_edges[1]) = EdgeKey(arg_edges[3])
    /\ RatLess(arg_edges[3].distance, arg_edges[1].distance)
    /\ KeyLess(EdgeKey(arg_edges[2]), EdgeKey(arg_edges[1]))
    /\ ret[2] = arg_edges[3]

\* C2: dedupe_edges is idempotent: the second call returns the sequence of
\* (src,dst,distance) triples that the first call returned.
C2_DedupeIdempotent ==
    fn_pc = "dedupe_again" => ret.twice = ret.once

C2_Witness ==
    /\ fn_pc = "dedupe_again"
    /\ Len(arg_edges) = 3
    /\ Len(ret.once) = 2
    /\ Len(ret.twice) = 2
    /\ ret.once # arg_edges

NodeIdsOf(ns) == {ns[i].node_id : i \in DOMAIN ns}

\* C3: ensure_ids_contiguous fails whenever the set of raw node ids is not
\* exactly {0..N-1}, N the number of node records, or some edge endpoint is
\* not a node id; it passes otherwise (for the empty node list, where max()
\* raises, only the failing half is stated).
C3_ValidateOnly ==
    fn_pc = "ensure" =>
        LET good == /\ NodeIdsOf(arg_nodes) = 0..(Len(arg_nodes) - 1)
                    /\ EndpointIds(arg_edges) \subseteq NodeIdsOf(arg_nodes)
        IN /\ ~good => ret # "ok"
           /\ (good /\ arg_nodes # <<>>) => ret = "ok"

RankIn(S, o) == Cardinality({u \in S : u < o})

\* C5: when every edge endpoint is a key of the node mapping,
\* renumber_nodes_contiguous maps the k-th smallest referenced id to k,
\* returns nodes keyed exactly by 0..M-1 with the coordinates of their raw
\* ids, drops unreferenced nodes, and maps the endpoints of every edge,
\* leaving the distances unchanged.
C5_RenumberBijection ==
    (fn_pc = "renumber" /\ EndpointIds(arg_edges) \subseteq DOMAIN arg_nodes) =>
        LET used == EndpointIds(arg_edges)
            M == Cardinality(used)
        IN /\ DOMAIN ret.nodes = 0..(M - 1)
           /\ \A o \in used :
                 ret.nodes[RankIn(used, o)] =
                     LondonNodeRecord(RankIn(used, o), arg_nodes[o].x, arg_nodes[o].y)
           /\ Len(ret.edges) = Len(arg_edges)
           /\ \A i \in DOMAIN arg_edges :
                 /\ ret.edges[i] = EdgeRecord(RankIn(used, arg_edges[i].src),
                                              RankIn(used, arg_edges[i].dst),
                                              arg_edges[i].distance)
                 /\ ret.edges[i].src < M
                 /\ ret.edges[i].dst < M

\* ids 1 and 2 are referenced and move to 0 and 1; node 0 is dropped
C5_Witness ==
    /\ fn_pc = "renumber"
    /\ DOMAIN arg_nodes = {0, 1, 2}
    /\ EndpointIds(arg_edges) = {1, 2}
    /\ DOMAIN ret.nodes = {0, 1}
    /\ ret.nodes[1].x = arg_nodes[2].x
    /\ \E i \in DOMAIN ret.edges : ret.edges[i].src = 1 /\ arg_edges[i].src = 2

(***************************************************************************)
(* Properties of a run of main (Spec)                                      *)
(***************************************************************************)
\* the node ids of the raw input: the node file's ids (california), the
\* endpoints of the csv rows (london)
RawNodeIds ==
    IF script = "california" THEN {raw.nodes[k].node_id : k \in DOMAIN raw.nodes}
    ELSE {raw.edges[k].src : k \in DOMAIN raw.edges}
         \cup {raw.edges[k].dst : k \in DOMAIN raw.edges}

\* C4: under either id policy a graph whose raw node set is empty, or with an
\* edge endpoint outside 0..N-1 after the policy, never reaches write_nodes or
\* write_edges.
C4_NoOutputForBadGraph ==
    (nodes_file.exists \/ edges_file.exists) =>
        /\ RawNodeIds # {}
        /\ EndpointIds(edges) \subseteq 0..(vertex_count - 1)

DefaultGrid == <<0, 450, 480, 510, 540, 570, 960, 990, 1020, 1050, 1080, 1110>>

\* C6: generate_time_series returns, in both scripts and whatever graph is
\* loaded afterwards, the strictly increasing 12-point grid that starts at 0,
\* ends at 1110 and holds every start + 30k <= end of each window in order.
C6_TimeGrid ==
    /\ series[1] = 0
    /\ \A i \in 1..(Len(series) - 1) : series[i] < series[i + 1]
    /\ pc # "import" =>
          /\ Len(series) = 12
          /\ series[Len(series)] = 1110
          /\ series = DefaultGrid
    /\ edges_file.exists => edges_file.arrival = series

C6_Witness ==
    /\ script = "london"
    /\ pc = "done"
    /\ Len(edges) = 2
    /\ edges_file.exists
    /\ Len(edges_file.arrival) = 12
    /\ edges_file.arrival[6] = 570
    /\ edges_file.arrival[12] = 1110

\* the order of doubles (a negative double is never zero)
FLess(x, y) ==
    IF x.s = 1 /\ y.s = 1 THEN FMagLess(y, x)
    ELSE IF x.s = 1 THEN TRUE
    ELSE IF y.s = 1 THEN FALSE
    ELSE FMagLess(x, y)

FLeq(x, y) == x = y \/ FLess(x, y)

\* P < Q for numbers of 8 limbs
W_less(P, Q) == W_less_below(P, Q, 8)

\* the cost vector of the edge in hand is complete
VectorComplete == pc = "grid" /\ loc.t > Len(series)

\* C7 as stated: every entry of every synthesized cost vector is >= the
\* edge's base cost, for any loaded distance and any configured speed.
C7_CostFloorAnyInput ==
    pc = "grid" =>
        /\ Len(loc.travel_costs) = loc.t - 1
        /\ \A i \in DOMAIN loc.travel_costs : FLeq(loc.base_cost, loc.travel_costs[i])

\* C7 amended: the cost vector has one entry per grid point, in grid order;
\* every entry is >= the base cost when the base cost is >= 0 (distance >= 0
\* and edge speed > 0), and <= the base cost when the base cost is negative.
C7_CostFloor ==
    /\ pc = "grid" =>
          /\ Len(loc.travel_costs) = loc.t - 1
          /\ loc.t <= Len(series) + 1
          /\ \A i \in DOMAIN loc.travel_costs :
                IF FLeq(FZero, loc.base_cost)
                THEN FLeq(loc.base_cost, loc.travel_costs[i])
                ELSE FLeq(loc.travel_costs[i], loc.base_cost)
    /\ \A k \in DOMAIN edges_file.lines :
          Len(edges_file.lines[k].costs) = Len(edges_file.arrival)

C7_Witness ==
    /\ VectorComplete
    /\ Len(loc.travel_costs) = 12
    /\ FLess(FZero, loc.base_cost)
    /\ loc.travel_costs[1] = loc.base_cost
    /\ FLess(loc.base_cost, loc.travel_costs[4])
    /\ loc.travel_costs[6] = loc.base_cost

Count1(x) == Cardinality({i \in DOMAIN x : x[i] = 1})

Min(a, b) == IF a < b THEN a ELSE b
Max(a, b) == IF a > b THEN a ELSE b

\* flag i went to the i-th edge of the (src,dst)-sorted edge list
FlagsFollowEdgeOrder ==
    /\ Len(is_clearway) = Len(edges)
    /\ StrictlyAscendingByKey(edges)
    /\ \A k \in DOMAIN edges_file.lines :
          /\ EdgeKey(edges_file.lines[k]) = EdgeKey(edges[k])
          /\ edges_file.lines[k].rushWidth =
                (IF is_clearway[k] = 1 THEN cfg.clearway_width ELSE cfg.base_width)

\* C8 as stated: for every integer percentage p exactly floor(E * p / 100)
\* edges are classified clearway.
C8_ClearwayCountAnyPct ==
    edges_file.exists =>
        /\ Count1(is_clearway) = (Len(edges) * cfg.clearway_pct) \div 100
        /\ FlagsFollowEdgeOrder

\* C8 amended: the number of clearway edges is floor(E * p / 100) clamped to
\* 0..E (so exactly floor(E * p / 100) for 0 <= p <= 100), and flag i is
\* applied to the i-th edge of the (src,dst)-sorted edge list.
C8_ClearwayCount ==
    edges_file.exists =>
        /\ Count1(is_clearway) =
              Min(Len(edges), Max(0, (Len(edges) * cfg.clearway_pct) \div 100))
        /\ \A i \in DOMAIN is_clearway : is_clearway[i] \in {0, 1}
        /\ FlagsFollowEdgeOrder

C8_Witness ==
    /\ pc = "done"
    /\ Len(edges) = 2
    /\ cfg.clearway_pct = 50
    /\ Len(edges_file.lines) = 2
    /\ is_clearway = <<0, 1>>
    /\ edges_file.lines[2].rushWidth = cfg.clearway_width
    /\ edges_file.lines[1].rushWidth # cfg.clearway_width

WidthRule(k) ==
    /\ edges_file.lines[k].baseWidth = cfg.base_width
    /\ edges_file.lines[k].rushWidth =
          (IF is_clearway[k] = 1 THEN cfg.clearway_width ELSE cfg.base_width)
    /\ is_clearway[k] = 0 => edges_file.lines[k].rushWidth = edges_file.lines[k].baseWidth

\* C9 as stated: baseWidth is the configured base width, rushWidth is the
\* clearway width on clearway edges and the base width otherwise, hence
\* clearway edges have rushWidth >= baseWidth.
C9_WidthOrderingAnyConfig ==
    \A k \in DOMAIN edges_file.lines :
        /\ WidthRule(k)
        /\ is_clearway[k] = 1
              => RatLeq(edges_file.lines[k].baseWidth, edges_file.lines[k].rushWidth)

\* C9 amended: baseWidth is the configured base width, rushWidth is the
\* clearway width on clearway edges and the base width otherwise (never the
\* rush-width option); regular edges have rushWidth = baseWidth, and clearway
\* edges have rushWidth >= baseWidth exactly when the configured clearway
\* width is >= the configured base width.
C9_WidthOrdering ==
    \A k \in DOMAIN edges_file.lines :
        /\ WidthRule(k)
        /\ is_clearway[k] = 1
              => (RatLeq(edges_file.lines[k].baseWidth, edges_file.lines[k].rushWidth)
                    <=> RatLeq(cfg.base_width, cfg.clearway_width))

C9_Witness ==
    /\ pc = "done"
    /\ Len(edges_file.lines) = 2
    /\ cfg.rush_width # cfg.base_width
    /\ RatLess(cfg.base_width, cfg.clearway_width)
    /\ is_clearway[1] = 0
    /\ is_clearway[2] = 1
    /\ edges_file.lines[1].rushWidth = cfg.base_width
    /\ edges_file.lines[2].rushWidth = cfg.clearway_width

\* C10: the clearway classification depends on the edge count and the
\* clearway percentage only: it is the shuffle drawn from the stream freshly
\* seeded with 123 (the stream in use from then on), whatever the density
\* and the distances, so it is the one every other density produces too.
C10_ClearwayIsolated ==
    edges_file.exists =>
        /\ rng.seed = 123
        /\ is_clearway =
              rng_shuffle(rng_seed(123),
                          indicator_vector(Len(edges), cfg.clearway_pct)).list
        /\ \A c \in Configs :
              c.clearway_pct = cfg.clearway_pct =>
                 assign_scores_and_clearway(Len(edges), c.density,
                                            c.clearway_pct).is_clearway = is_clearway

\* scores were assigned (one positive score) before a non-trivial classification
C10_Witness ==
    /\ edges_file.exists
    /\ Len(edges) = 2
    /\ Count1(scores) = 1
    /\ Count1(is_clearway) = 1
    /\ \E c \in Configs : c.clearway_pct = cfg.clearway_pct /\ c.density # cfg.density

\* the (src,dst) pairs of the raw edge file, and the least distance of a pair
RawKeys == {<<raw.edges[k].src, raw.edges[k].dst>> : k \in DOMAIN raw.edges}

RawMinDistance(key) ==
    LET ds == {raw.edges[k].distance : k \in {j \in DOMAIN raw.edges :
                                                <<raw.edges[j].src, raw.edges[j].dst>> = key}}
    IN CHOOSE d \in ds : \A o \in ds : RatLeq(d, o)

\* the id a raw node id is written under: itself (california), its rank among
\* the ids the csv rows refer to (london)
WrittenId(o) == IF script = "california" THEN o ELSE RankIn(RawNodeIds, o)

\* C11: in both pipelines the edge lines written after the header are strictly
\* ascending by the written (src,dst) pair, hence no two share a pair, and a
\* finished file has exactly one line per distinct raw (src,dst) pair, with
\* that pair's least raw distance unchanged; in london the written pair is
\* the renumbered one, and the order survives the renumbering.
C11_SortedUniqueMinimal ==
    /\ StrictlyAscendingByKey(edges_file.lines)
    /\ \A i, j \in DOMAIN edges_file.lines :
          EdgeKey(edges_file.lines[i]) = EdgeKey(edges_file.lines[j]) => i = j
    /\ pc = "done" =>
          /\ Len(edges_file.lines) = Cardinality(RawKeys)
          /\ \A key \in RawKeys :
                \E k \in DOMAIN edges_file.lines :
                    /\ EdgeKey(edges_file.lines[k]) = <<WrittenId(key[1]), WrittenId(key[2])>>
                    /\ edges_file.lines[k].distance = RawMinDistance(key)

\* london, both rows on the pair (1,1): one line, renumbered to (0,0), with
\* the smaller distance, which is the second row's
C11_Witness ==
    /\ script = "london"
    /\ pc = "done"
    /\ Len(raw.edges) = 2
    /\ RawKeys = {<<1, 1>>}
    /\ Len(edges_file.lines) = 1
    /\ EdgeKey(edges_file.lines[1]) = <<0, 0>>
    /\ edges_file.lines[1].distance = raw.edges[2].distance
    /\ RatLess(raw.edges[2].distance, raw.edges[1].distance)

\* california, two distinct pairs given in descending order
C11_WitnessSorted ==
    /\ script = "california"
    /\ pc = "done"
    /\ Len(raw.edges) = 2
    /\ KeyLess(EdgeKey(raw.edges[2]), EdgeKey(raw.edges[1]))
    /\ Len(edges_file.lines) = 2

\* a raw line with too few columns was read
RawMalformed ==
    \/ \E k \in DOMAIN raw.nodes : raw.nodes[k].bad
    \/ \E k \in DOMAIN raw.edges : raw.edges[k].bad

\* what the integrity check of convert_california asks of the raw graph
RawIntegrityOK ==
    /\ RawNodeIds # {}
    /\ \A i \in 0..SetMax(RawNodeIds) : i \in RawNodeIds
    /\ \A k \in DOMAIN raw.edges :
          raw.edges[k].src \in RawNodeIds /\ raw.edges[k].dst \in RawNodeIds

BeforeLoad == pc \in {"import", "main", "check_files"}

\* C12: a run whose raw file is missing, whose raw line is malformed or whose
\* integrity check (convert_california) fails stops in the exception, and a
\* run stopped there has written neither output file; an output file exists
\* only after every required raw file was found, loaded and canonicalized;
\* the edge file never exists without the node file.
C12_NoPartialOutput ==
    /\ pc \in {"FileNotFoundError", "ValueError", "TypeError"}
          => ~nodes_file.exists /\ ~edges_file.exists
    /\ edges_file.exists => nodes_file.exists
    /\ (~BeforeLoad /\ ~(RequiredFiles(script) \subseteq present))
          => pc = "FileNotFoundError"
    /\ RawMalformed => pc \in {"ValueError", "TypeError"}
    /\ (script = "california" /\ pc \notin {"load", "FileNotFoundError"}
           /\ ~BeforeLoad /\ ~RawIntegrityOK)
          => pc \in {"validate", "ValueError"}
    /\ nodes_file.exists =>
          /\ RequiredFiles(script) \subseteq present
          /\ ~RawMalformed
          /\ script = "california" => RawIntegrityOK
          /\ pc \in {"write_edges", "edge_begin", "grid", "done",
                      "ZeroDivisionError", "IndexError"}
          /\ StrictlyAscendingByKey(edges)
    /\ (nodes_file.exists /\ ~edges_file.exists) => pc = "write_edges"

\* convert_california stopped by the integrity check on an edge that refers to
\* a node the node file does not hold: nothing was written
C12_Witness ==
    /\ script = "california"
    /\ pc = "ValueError"
    /\ ~RawMalformed
    /\ RawNodeIds = {0}
    /\ \E k \in DOMAIN raw.edges : raw.edges[k].dst = 1
    /\ ~nodes_file.exists
    /\ ~edges_file.exists

\* time lies in a rush window, its start included and its end excluded
InWindow(time) ==
    \E w \in DOMAIN RUSH_HOURS : RUSH_HOURS[w][1] <= time /\ time < RUSH_HOURS[w][2]

\* the number of windows whose end point is at or before time
WindowsEndedBy(time) == Cardinality({w \in DOMAIN RUSH_HOURS : RUSH_HOURS[w][2] <= time})

\* C13: over the 12-point grid the automaton starts each edge at (False, 0);
\* after the grid point t, inside_rush is True exactly when start <= t < end
\* for one of the two windows (True at 450 and 960, False at 570 and 1110,
\* where the cost is the base cost), and rush_idx is the number of windows
\* that ended at or before t, so it never decreases and grows by one exactly
\* at 570 and at 1110; rush_idx is a valid window index whenever inside_rush
\* is True, and the scan ends in (False, 2).
C13_RushAutomaton ==
    pc = "grid" =>
        /\ loc.t = 1 => (~loc.inside_rush /\ loc.rush_idx = 0)
        /\ loc.t > 1 =>
              LET time == series[loc.t - 1]
              IN /\ loc.inside_rush <=> InWindow(time)
                 /\ loc.rush_idx = WindowsEndedBy(time)
                 /\ time \in {450, 960} => loc.inside_rush
                 /\ time \in {570, 1110} =>
                       /\ ~loc.inside_rush
                       /\ loc.travel_costs[loc.t - 1] = loc.base_cost
        /\ loc.inside_rush => loc.rush_idx + 1 \in DOMAIN RUSH_HOURS
        /\ loc.t > Len(series) => (~loc.inside_rush /\ loc.rush_idx = 2)

\* just after the grid point 570: the morning window was left, the point 540
\* was surcharged and the point 570 was not
C13_Witness ==
    /\ pc = "grid"
    /\ loc.t = 7
    /\ series[6] = 570
    /\ ~loc.inside_rush
    /\ loc.rush_idx = 1
    /\ loc.travel_costs[5] # loc.base_cost
    /\ loc.travel_costs[6] = loc.base_cost

\* x is lo / 100 to hi / 100 times base, as exact numbers: x has the sign of
\* base and lo * |base| <= 100 * |x| <= hi * |base|
FRatioWithin(x, base, lo, hi) ==
    IF FIsZero(base) THEN FIsZero(x)
    ELSE LET emin == IF x.e < base.e THEN x.e ELSE base.e
             Scaled(k, y) == LET P == M_mul(y.m, <<k, 0, 0, 0>>)
                             IN IF y.e > emin THEN W_add(P, P) ELSE P
         IN /\ x.s = base.s
            /\ ~FIsZero(x)
            /\ Abs(x.e - base.e) <= 1
            /\ ~W_less(Scaled(100, x), Scaled(lo, base))
            /\ ~W_less(Scaled(hi, base), Scaled(100, x))

\* the intervals [0.10,0.15], [0.20,0.25] and [0.30,0.40], each bound the double
\* nearest to the decimal
Interval_10_15 == <<FLit(10, 100), FLit(15, 100)>>
Interval_20_25 == <<FLit(20, 100), FLit(25, 100)>>
Interval_30_40 == <<FLit(30, 100), FLit(40, 100)>>

\* the interval the multiplier of a position is drawn from
PositionInterval(position) ==
    IF position \in {0, 4} THEN Interval_10_15
    ELSE IF position \in {1, 3} THEN Interval_20_25
    ELSE Interval_30_40

\* C14: after a grid point met inside rush, position is
\* (time - windowStart) // 30 and lies in 0..4, the multiplier is not the
\* fallback 0 but lies in [0.10,0.15] for position 0 or 4, [0.20,0.25] for 1 or
\* 3 and [0.30,0.40] for 2 (the bounds being the doubles of these literals),
\* and the cost is base_cost + base_cost * multiplier; every cost of a point
\* inside a window is therefore 1.10 to 1.40 times the base cost (compared as
\* exact numbers), and every cost of a point outside the windows is the base
\* cost.
C14_MultiplierBands ==
    pc = "grid" =>
        /\ (loc.t > 1 /\ loc.inside_rush) =>
              LET time == series[loc.t - 1]
                  windowStart == RUSH_HOURS[loc.rush_idx + 1][1]
              IN /\ loc.position = (time - windowStart) \div 30
                 /\ loc.position \in 0..4
                 /\ ~FIsZero(loc.multiplier)
                 /\ FLeq(PositionInterval(loc.position)[1], loc.multiplier)
                 /\ FLeq(loc.multiplier, PositionInterval(loc.position)[2])
                 /\ loc.travel_costs[loc.t - 1] =
                       FAdd(loc.base_cost, FMul(loc.base_cost, loc.multiplier))
        /\ \A i \in DOMAIN loc.travel_costs :
              IF InWindow(series[i])
              THEN FRatioWithin(loc.travel_costs[i], loc.base_cost, 110, 140)
              ELSE loc.travel_costs[i] = loc.base_cost

\* just after 1080, the last point of the evening window: position 4, a
\* multiplier from the lowest band, a cost above a positive base cost
C14_Witness ==
    /\ pc = "grid"
    /\ loc.t = 12
    /\ series[11] = 1080
    /\ loc.inside_rush
    /\ loc.position = 4
    /\ FLeq(Interval_10_15[1], loc.multiplier)
    /\ FLeq(loc.multiplier, Interval_10_15[2])
    /\ FLess(FZero, loc.base_cost)
    /\ FLess(loc.base_cost, loc.travel_costs[11])
    /\ loc.travel_costs[6] = loc.base_cost

\* the automaton of one variant after the first i points of the grid
RECURSIVE RushScan(_, _)
RushScan(variant, i) ==
    IF i = 0 THEN [inside_rush |-> FALSE, rush_idx |-> 0]
    ELSE IF variant = "california"
         THEN rush_step_california(RushScan(variant, i - 1), series[i])
         ELSE rush_step_london(RushScan(variant, i - 1), series[i])

\* the random draws a variant makes for one edge: the speed and one per point
\* met inside rush
DrawsPerEdge(variant) ==
    1 + Cardinality({i \in DOMAIN series : RushScan(variant, i).inside_rush})

\* C15: stepped side by side over the arrival grid, the transition of
\* convert_california and the transition of convert_london are in the same
\* (inside_rush, rush_idx) state after every grid point, and the automaton of
\* the running script is in that state too; from there both take the same
\* next step, select the same multiplier band and so make the same number of
\* random draws per edge (the whole scans are compared when an edge's scan
\* starts, the running state at every grid point).
C15_VariantsAgree ==
    pc = "grid" =>
        /\ loc.t = 1 =>
              /\ \A i \in 0..Len(series) :
                    RushScan("california", i) = RushScan("london", i)
              /\ DrawsPerEdge("california") = DrawsPerEdge("london")
        /\ LET st == [inside_rush |-> loc.inside_rush, rush_idx |-> loc.rush_idx]
           IN /\ st = RushScan("california", loc.t - 1)
              /\ st = RushScan("london", loc.t - 1)
              /\ loc.t <= Len(series) =>
                    rush_step_california(st, series[loc.t])
                       = rush_step_london(st, series[loc.t])

\* convert_london just after 570, where its test is `time >= end` with the
\* exit guarded by inside_rush: the state convert_california is in
C15_Witness ==
    /\ script = "london"
    /\ pc = "grid"
    /\ loc.t = 7
    /\ series[6] = 570
    /\ ~loc.inside_rush
    /\ loc.rush_idx = 1
    /\ RushScan("california", 6) = [inside_rush |-> FALSE, rush_idx |-> 1]
    /\ RushScan("california", 5).inside_rush
    /\ DrawsPerEdge("london") = 10

\* the stream seeded with 123 when the clearway flags have been shuffled, and
\* after n more draws of random(), which takes two words
StreamAfterShuffle ==
    rng_shuffle(rng_seed(123), indicator_vector(Len(edges), cfg.clearway_pct)).state

StreamAt(n) == [seed |-> 123, pos |-> StreamAfterShuffle.pos + 2 * n]

\* the draws of one edge: its speed and one multiplier per grid point inside
\* a window
InsideRank(i) == Cardinality({j \in 1..i : InWindow(series[j])})

EdgeDraws == 1 + InsideRank(Len(series))

\* the number of draws made since the clearway shuffle
DrawsSoFar ==
    EdgeDraws * (loc.idx - 1)
      + (IF pc = "grid" THEN 1 + InsideRank(loc.t - 1)
         ELSE IF pc = "ZeroDivisionError" THEN 1 ELSE 0)

\* the interval [0.8,1.2] of the London speed variation
Interval_08_12 == <<FLit(8, 10), FLit(12, 10)>>

\* line k as a function of the edge list, the options and the seed alone:
\* draw j of edge k is draw EdgeDraws * (k - 1) + j after the clearway shuffle
ExpectedLine(k) ==
    LET e == edges[k]
        U(j) == rng_random(StreamAt(EdgeDraws * (k - 1) + j - 1)).value
        speed == IF script = "california"
                 THEN speed_km_per_min(
                          FAdd(FInt(20), FMul(FSub(FInt(25), FInt(20)), U(1))))
                 ELSE FMul(float(cfg.speed),
                           FAdd(Interval_08_12[1],
                                FMul(FSub(Interval_08_12[2], Interval_08_12[1]), U(1))))
        base == FDiv(float(e.distance), speed)
        WindowOf(time) == CHOOSE w \in DOMAIN RUSH_HOURS :
                             RUSH_HOURS[w][1] <= time /\ time < RUSH_HOURS[w][2]
        Cost(i) ==
            IF InWindow(series[i])
            THEN LET band == PositionInterval(
                                (series[i] - RUSH_HOURS[WindowOf(series[i])][1]) \div 30)
                     m == FAdd(band[1], FMul(FSub(band[2], band[1]),
                                             U(1 + InsideRank(i))))
                 IN FAdd(base, FMul(base, m))
            ELSE base
        flags == rng_shuffle(rng_seed(123),
                             indicator_vector(Len(edges), cfg.clearway_pct)).list
    IN [src |-> e.src, dst |-> e.dst,
        costs |-> [i \in 1..Len(series) |-> format6(Cost(i))],
        baseWidth |-> cfg.base_width,
        rushWidth |-> IF flags[k] = 1 THEN cfg.clearway_width ELSE cfg.base_width,
        distance |-> e.distance]

\* C16: the edge file is a function of the canonical edge list, the options
\* and the seed: after the header is written the stream is the one seeded
\* with 123, advanced by the clearway shuffle and by the draws made so far
\* (per edge, in edge order, the speed draw and then one multiplier draw per
\* rush point in grid order), and the line just written is the line that
\* function gives, so two runs on the same input and options write the same
\* costs and widths.
C16_Deterministic ==
    (edges_file.exists /\ pc # "IndexError") =>
        /\ rng = StreamAt(DrawsSoFar)
        /\ (pc \in {"edge_begin", "done"} /\ edges_file.lines # <<>>) =>
              /\ Len(edges_file.lines) = loc.idx - 1
              /\ edges_file.lines[loc.idx - 1] = ExpectedLine(loc.idx - 1)

\* a finished file of two edges: after the shuffle 2 * 10 draws were made,
\* and the second line holds a surcharged cost
C16_Witness ==
    /\ pc = "done"
    /\ Len(edges_file.lines) = 2
    /\ DrawsSoFar = 20
    /\ rng = StreamAt(20)
    /\ rng.pos = StreamAfterShuffle.pos + 40
    /\ edges_file.lines[2] = ExpectedLine(2)
    /\ edges_file.lines[2].costs[4] # edges_file.lines[2].costs[1]
    /\ edges_file.lines[1].costs # edges_file.lines[2].costs

====
